---- MODULE Spec2Model ----
(***************************************************************************)
(* GraphModel (superduperdb/components/graph_model.py): a registry of      *)
(* predictors with their input edges, built by add_node, and predict,      *)
(* which walks the registry in insertion order and invokes every           *)
(* predictor with a scoped selection and the jobs of its inputs.           *)
(***************************************************************************)
EXTENDS Integers, Sequences, FiniteSets, TLC

\* ------------------------------------------------------------------------
\* Bounds and value domains
\* ------------------------------------------------------------------------

\* The longest inputs sequence a caller passes to add_node.
MaxInputs == 2

\* The predictor objects of the class docstring (m1, m2, m3). A name stands
\* for the object's identity, id(predictor): the key of self._nodes.
Predictors == {"m1", "m2", "m3"}

\* What a caller may pass as inputs: any sequence of predictors, registered
\* or not, with or without repetitions.
InputSeqs == UNION {[1..n -> Predictors] : n \in 0..MaxInputs}

\* What a caller may pass as accepts_data: bool | Literal["auto"].
AcceptsDataArgs == {"auto", "True", "False"}

\* Values a predictor's predict may return (jobs or results), and the errors
\* it may raise.
Handles == {"h1", "h2"}
Errors == {"e1", "e2"}

\* The X argument of predict; NoData stands for "no raw data passed".
Data == {"D"}
NoData == "NoData"

\* The dependencies argument of predict.
ExternalDeps == {<<>>, <<"job0">>}

\* ids, max_chunk_size, db and **kwargs of predict, as one value.
SharedParams == {"params"}

\* A selection is the base query and the outputs(...) calls applied to it, in
\* order. NoneSelect is select=None, the default of predict.
BaseSelect == [base |-> "S", scopes |-> <<>>]
NoneSelect == [base |-> "None", scopes |-> <<>>]
Selects == {BaseSelect, NoneSelect}

\* The local variable output of predict before its first assignment.
Unbound == "unbound"

\* ------------------------------------------------------------------------
\* State
\* ------------------------------------------------------------------------
VARIABLES
    _nodes,     \* self._nodes: the dict's values in insertion order
    pc,         \* "idle"; "loop" inside the for loop of predict; "done" when
                \* add_node or predict has returned or raised and its caller
                \* holds the result
    idx,        \* position of predict's loop in self._nodes.values()
    args,       \* the arguments of the current or most recent predict call
    _outputs,   \* predict's local cache: predictor -> recorded output
    output,     \* predict's local variable output
    calls,      \* the predictor invocations of the current or most recent predict
    result,     \* how the most recent predict ended; while predict runs, after
                \* tells how the predict call right before it ended, if any
    last        \* the add_node call that just ended: its arguments, the
                \* registry it found and how it ended

vars == <<_nodes, pc, idx, args, _outputs, output, calls, result, last>>

NoCall ==
    [op |-> "none", predictor |-> "-", inputs |-> <<>>, accepts_data |-> "-",
     before |-> <<>>, outcome |-> "-"]

NoArgs == [X |-> "-", select |-> NoneSelect, dependencies |-> <<>>, shared |-> "-"]

NoResult == [status |-> "none", source |-> "-", value |-> "-", after |-> "-"]

\* ------------------------------------------------------------------------
\* add_node
\* ------------------------------------------------------------------------

\* What the __eq__ and __hash__ of a predictor compare: m1 and m2 are two
\* objects that compare equal, m3 differs from both.
Content(p) == IF p \in {"m1", "m2"} THEN "same" ELSE "other"

\* Variant: the registry is keyed by the predictor, that is by its own
\* __eq__ and __hash__.
IdFromContent(p) == Content(p)

\* id(p): the key of a predictor in self._nodes.
Id(p) == p

\* self._nodes.get(id(p)) is not None
HasNode(ns, p) == \E k \in 1..Len(ns) : Id(ns[k].predictor) = Id(p)

\* Variant: the loop over inputs is missing.
InputsRegisteredNoCheck(ns, inputs) == TRUE

\* The for loop over inputs of add_node finds no missing input.
InputsRegistered(ns, inputs) ==
    \A j \in 1..Len(inputs) : HasNode(ns, inputs[j])

\* Variant: "auto" always resolves to True.
ResolveAcceptsDataAutoTrue(accepts_data, inputs) ==
    IF accepts_data = "auto" THEN TRUE ELSE accepts_data = "True"

\* if accepts_data == "auto": accepts_data = not inputs
ResolveAcceptsData(accepts_data, inputs) ==
    IF accepts_data = "auto" THEN inputs = <<>> ELSE accepts_data = "True"

\* Variant: the new node is put in front of the others.
DictSetInFront(ns, p, node) == <<node>> \o ns

\* self._nodes[id(p)] = node: a dict keeps the position of a key it already
\* holds and appends a new key at the end.
DictSet(ns, p, node) ==
    IF \E k \in 1..Len(ns) : Id(ns[k].predictor) = Id(p)
    THEN [k \in 1..Len(ns) |-> IF Id(ns[k].predictor) = Id(p) THEN node ELSE ns[k]]
    ELSE Append(ns, node)

\* Variant: the check for a predictor already in the graph is missing.
AddNodeOutcomeNoDuplicateCheck(ns, predictor, inputs) ==
    IF ~InputsRegistered(ns, inputs) THEN "InputNotInGraph" ELSE "ok"

\* How add_node(predictor, inputs, ...) ends on registry ns: one of its two
\* ValueErrors, named by their messages, or a normal return.
AddNodeOutcome(ns, predictor, inputs) ==
    IF HasNode(ns, predictor) THEN "PredictorAlreadyInGraph"
    ELSE IF ~InputsRegistered(ns, inputs) THEN "InputNotInGraph"
    ELSE "ok"

\* Variant: the node is stored before its inputs are checked.
AddNodeNodesStoredFirst(ns, predictor, inputs, accepts_data) ==
    IF AddNodeOutcome(ns, predictor, inputs) # "PredictorAlreadyInGraph"
    THEN DictSet(ns, predictor,
                 [predictor |-> predictor, inputs |-> inputs,
                  accepts_data |-> ResolveAcceptsData(accepts_data, inputs)])
    ELSE ns

\* The registry add_node leaves behind.
AddNodeNodes(ns, predictor, inputs, accepts_data) ==
    IF AddNodeOutcome(ns, predictor, inputs) = "ok"
    THEN DictSet(ns, predictor,
                 [predictor |-> predictor, inputs |-> inputs,
                  accepts_data |-> ResolveAcceptsData(accepts_data, inputs)])
    ELSE ns

AddNode(predictor, inputs, accepts_data) ==
    /\ pc = "idle"
    /\ pc' = "done"
    /\ _nodes' = AddNodeNodes(_nodes, predictor, inputs, accepts_data)
    /\ last' = [op |-> "add_node", predictor |-> predictor, inputs |-> inputs,
                accepts_data |-> accepts_data, before |-> _nodes,
                outcome |-> AddNodeOutcome(_nodes, predictor, inputs)]
    /\ UNCHANGED <<idx, args, _outputs, output, calls, result>>

\* ------------------------------------------------------------------------
\* predict
\* ------------------------------------------------------------------------

\* i.identifier: the name under which the outputs of predictor i are stored.
Identifier(p) == <<"identifier", p>>

\* select.outputs(X, identifier): a new selection, the receiver scoped
\* further to the stored outputs of one predictor; the receiver is untouched.
outputs(select, X, identifier) ==
    [select EXCEPT !.scopes = Append(@, <<X, identifier>>)]

\* Variant: the registry is walked from its last node to its first.
NodeAtReversed(ns, k) == ns[Len(ns) + 1 - k]

\* The k-th node of the iteration over self._nodes.values().
NodeAt(ns, k) == ns[k]

\* Variant: the inputs do not scope the selection.
RECURSIVE InputsLoopUnscoped(_, _, _, _, _)
InputsLoopUnscoped(node_select, node_deps, inputs, X, outs) ==
    IF inputs = <<>>
    THEN [error |-> "none", select |-> node_select, deps |-> node_deps]
    ELSE LET i == Head(inputs) IN
         IF node_select = NoneSelect
         THEN [error |-> "AttributeError", select |-> node_select, deps |-> node_deps]
         ELSE IF i \notin DOMAIN outs
         THEN [error |-> "KeyError", select |-> node_select, deps |-> node_deps]
         ELSE InputsLoopUnscoped(node_select, Append(node_deps, outs[i]),
                                 Tail(inputs), X, outs)

\* Variant: the output of an input is put in front of the dependencies.
RECURSIVE InputsLoopDepsInFront(_, _, _, _, _)
InputsLoopDepsInFront(node_select, node_deps, inputs, X, outs) ==
    IF inputs = <<>>
    THEN [error |-> "none", select |-> node_select, deps |-> node_deps]
    ELSE LET i == Head(inputs) IN
         IF node_select = NoneSelect
         THEN [error |-> "AttributeError", select |-> node_select, deps |-> node_deps]
         ELSE IF i \notin DOMAIN outs
         THEN [error |-> "KeyError", select |-> node_select, deps |-> node_deps]
         ELSE InputsLoopDepsInFront(outputs(node_select, X, Identifier(i)),
                                    <<outs[i]>> \o node_deps, Tail(inputs), X, outs)

\* The loop "for i in node.inputs", started with node_select and node_deps:
\* each input scopes the selection and appends its recorded output. It ends
\* in the error of the first statement that fails: None has no outputs
\* attribute, and _outputs[id(i)] needs the key.
RECURSIVE InputsLoop(_, _, _, _, _)
InputsLoop(node_select, node_deps, inputs, X, outs) ==
    IF inputs = <<>>
    THEN [error |-> "none", select |-> node_select, deps |-> node_deps]
    ELSE LET i == Head(inputs) IN
         IF node_select = NoneSelect
         THEN [error |-> "AttributeError", select |-> node_select, deps |-> node_deps]
         ELSE IF i \notin DOMAIN outs
         THEN [error |-> "KeyError", select |-> node_select, deps |-> node_deps]
         ELSE InputsLoop(outputs(node_select, X, Identifier(i)),
                         Append(node_deps, outs[i]), Tail(inputs), X, outs)

\* node_select before the inputs loop: select in both branches of the
\* conditional on node.accepts_data.
InitialSelect(select, accepts_data) ==
    IF accepts_data THEN select ELSE select

\* The X a predictor is invoked with: X=X for every node.
PassedData(X, accepts_data) == X

\* Variant: db, ids, max_chunk_size and kwargs are not passed on.
PassedSharedDefaults(shared) == "defaults"

\* db=db, ids=ids, max_chunk_size=max_chunk_size, **kwargs for every node.
PassedShared(shared) == shared

\* Variant: the cache outlives the call.
PredictBeginKeepsCache(X, select, dependencies, shared) ==
    /\ pc = "idle" \/ (pc = "done" /\ result.status # "none")
    /\ pc' = "loop"
    /\ idx' = 1
    /\ args' = [X |-> X, select |-> select, dependencies |-> dependencies,
                shared |-> shared]
    /\ output' = Unbound
    /\ calls' = <<>>
    /\ result' = [status |-> "running", source |-> "-", value |-> "-",
                  after |-> IF pc = "done" THEN result.status ELSE "-"]
    /\ last' = NoCall
    /\ UNCHANGED <<_nodes, _outputs>>

\* predict(X, db, select, ids, max_chunk_size, dependencies, **kwargs) starts,
\* possibly straight after the predict call before it: the cache is created
\* empty, output is not yet bound.
PredictBegin(X, select, dependencies, shared) ==
    /\ pc = "idle" \/ (pc = "done" /\ result.status # "none")
    /\ pc' = "loop"
    /\ idx' = 1
    /\ args' = [X |-> X, select |-> select, dependencies |-> dependencies,
                shared |-> shared]
    /\ _outputs' = <<>>
    /\ output' = Unbound
    /\ calls' = <<>>
    /\ result' = [status |-> "running", source |-> "-", value |-> "-",
                  after |-> IF pc = "done" THEN result.status ELSE "-"]
    /\ last' = NoCall
    /\ UNCHANGED _nodes

\* An exception leaves predict and its caller receives it; nothing is done
\* to the locals of predict, which no later call can reach.
Abort(source, e) ==
    /\ pc' = "done"
    /\ result' = [status |-> "raised", source |-> source, value |-> e,
                  after |-> "-"]
    /\ UNCHANGED <<idx, _outputs, output>>

\* Variant: the error of a predictor is swallowed and the loop goes on.
PredictorRaisedSwallowed(e) ==
    /\ idx' = idx + 1
    /\ UNCHANGED <<pc, _outputs, output, result>>

\* node.predictor.predict(...) raised e: nothing in predict catches it.
PredictorRaised(e) == Abort("predictor", e)

\* Variant: the node is tried again after its predictor returned.
PredictorReturnedRetried(node, r) ==
    /\ output' = r
    /\ _outputs' = (node.predictor :> r) @@ _outputs
    /\ idx' = idx
    /\ UNCHANGED <<pc, result>>

\* Variant: the value returned is not put in the cache.
PredictorReturnedNotCached(node, r) ==
    /\ output' = r
    /\ idx' = idx + 1
    /\ UNCHANGED <<pc, result, _outputs>>

\* node.predictor.predict(...) returned r: it is bound to output and cached
\* under the predictor, and the loop goes on.
PredictorReturned(node, r) ==
    /\ output' = r
    /\ _outputs' = (node.predictor :> r) @@ _outputs
    /\ idx' = idx + 1
    /\ UNCHANGED <<pc, result>>

\* One iteration of the for loop of predict: the selection and the
\* dependencies of the node are built, then its predictor is invoked and
\* returns a value or raises.
PredictStep ==
    /\ pc = "loop"
    /\ idx <= Len(_nodes)
    /\ LET node == NodeAt(_nodes, idx)
           built == InputsLoop(InitialSelect(args.select, node.accepts_data),
                               args.dependencies, node.inputs, args.X, _outputs)
       IN  IF built.error # "none"
           THEN Abort("predict", built.error) /\ UNCHANGED calls
           ELSE \E r \in Handles \cup Errors :
                  /\ calls' = Append(calls,
                        [predictor |-> node.predictor,
                         X |-> PassedData(args.X, node.accepts_data),
                         select |-> built.select,
                         dependencies |-> built.deps,
                         shared |-> PassedShared(args.shared),
                         outcome |-> r])
                  /\ IF r \in Errors
                     THEN PredictorRaised(r)
                     ELSE PredictorReturned(node, r)
    /\ UNCHANGED <<_nodes, args, last>>

\* Variant: the output of the first node is returned.
PredictReturnFirst ==
    /\ pc = "loop"
    /\ idx > Len(_nodes)
    /\ pc' = "done"
    /\ result' = IF output = Unbound
                 THEN [status |-> "raised", source |-> "predict",
                       value |-> "UnboundLocalError", after |-> "-"]
                 ELSE [status |-> "returned", source |-> "-",
                       value |-> _outputs[_nodes[1].predictor], after |-> "-"]
    /\ UNCHANGED <<_nodes, idx, args, _outputs, output, calls, last>>

\* Variant: the registry is emptied when predict returns.
PredictReturnClearsRegistry ==
    /\ pc = "loop"
    /\ idx > Len(_nodes)
    /\ pc' = "done"
    /\ result' = IF output = Unbound
                 THEN [status |-> "raised", source |-> "predict",
                       value |-> "UnboundLocalError", after |-> "-"]
                 ELSE [status |-> "returned", source |-> "-", value |-> output,
                       after |-> "-"]
    /\ _nodes' = <<>>
    /\ UNCHANGED <<idx, args, _outputs, output, calls, last>>

\* Variant: output starts as None, which an empty registry returns.
PredictReturnNone ==
    /\ pc = "loop"
    /\ idx > Len(_nodes)
    /\ pc' = "done"
    /\ result' = [status |-> "returned", source |-> "-",
                  value |-> IF output = Unbound THEN "None" ELSE output,
                  after |-> "-"]
    /\ UNCHANGED <<_nodes, idx, args, _outputs, output, calls, last>>

\* The loop is over: return output, which is unbound if the loop never ran.
PredictReturn ==
    /\ pc = "loop"
    /\ idx > Len(_nodes)
    /\ pc' = "done"
    /\ result' = IF output = Unbound
                 THEN [status |-> "raised", source |-> "predict",
                       value |-> "UnboundLocalError", after |-> "-"]
                 ELSE [status |-> "returned", source |-> "-", value |-> output,
                       after |-> "-"]
    /\ UNCHANGED <<_nodes, idx, args, _outputs, output, calls, last>>

\* The caller of add_node or predict goes on with what the call returned or
\* raised; the record of that call and the locals of predict are dropped.
CallerResumes ==
    /\ pc = "done"
    /\ pc' = "idle"
    /\ idx' = 0
    /\ args' = NoArgs
    /\ _outputs' = <<>>
    /\ output' = Unbound
    /\ calls' = <<>>
    /\ result' = NoResult
    /\ last' = NoCall
    /\ UNCHANGED _nodes

\* ------------------------------------------------------------------------
\* Specification
\* ------------------------------------------------------------------------
Init ==
    /\ _nodes = <<>>
    /\ pc = "idle"
    /\ idx = 0
    /\ args = NoArgs
    /\ _outputs = <<>>
    /\ output = Unbound
    /\ calls = <<>>
    /\ result = NoResult
    /\ last = NoCall

Next ==
    \/ \E p \in Predictors, ins \in InputSeqs, acc \in AcceptsDataArgs :
          AddNode(p, ins, acc)
    \/ \E X \in Data, select \in Selects, deps \in ExternalDeps,
          shared \in SharedParams :
          PredictBegin(X, select, deps, shared)
    \/ PredictStep
    \/ PredictReturn
    \/ CallerResumes

Spec == Init /\ [][Next]_vars

\* ------------------------------------------------------------------------
\* Properties
\* ------------------------------------------------------------------------

\* The predictors that have a node in registry ns.
Registered(ns) == {ns[k].predictor : k \in 1..Len(ns)}

\* The positions of predictor p in registry ns.
Positions(ns, p) == {k \in 1..Len(ns) : ns[k].predictor = p}

\* Some element of the inputs sequence has no node in ns.
HasUnknownInput(ns, inputs) ==
    \E j \in 1..Len(inputs) : inputs[j] \notin Registered(ns)

\* C1: every input of every registered node is a node registered strictly
\* earlier, so insertion order is a topological order; no node is its own
\* input, and add_node of an unregistered predictor that names itself among
\* its inputs is rejected.
C1_InputsPrecede ==
    /\ \A k \in 1..Len(_nodes) :
          \A j \in 1..Len(_nodes[k].inputs) :
              /\ \E m \in 1..(k - 1) : _nodes[m].predictor = _nodes[k].inputs[j]
              /\ _nodes[k].inputs[j] # _nodes[k].predictor
    /\ (/\ last.op = "add_node"
        /\ last.predictor \notin Registered(last.before)
        /\ \E j \in 1..Len(last.inputs) : last.inputs[j] = last.predictor)
       => (last.outcome = "InputNotInGraph" /\ _nodes = last.before)

\* C1 witness: three nodes, the third fed by the two others, after a
\* rejected add_node call.
C1_Witness ==
    /\ Len(_nodes) = 3
    /\ Len(_nodes[3].inputs) = 2
    /\ _nodes[3].inputs[1] # _nodes[3].inputs[2]
    /\ last.op = "add_node"
    /\ last.outcome # "ok"

\* C2 as stated: every add_node call whose inputs contain an unregistered
\* predictor fails with the input-not-in-graph error and leaves the registry
\* as it was.
C2_UnknownInputAlways ==
    (last.op = "add_node" /\ HasUnknownInput(last.before, last.inputs))
    => (last.outcome = "InputNotInGraph" /\ _nodes = last.before)

\* C2 amended: such a call always fails and leaves the registry as it was;
\* the error is the input-not-in-graph error when the predictor itself is not
\* registered, and then that predictor is still not registered (a later
\* valid add_node of it is not a duplicate); it is the already-in-graph error
\* when the predictor is registered.
C2_UnknownInputRejected ==
    (last.op = "add_node" /\ HasUnknownInput(last.before, last.inputs))
    => /\ _nodes = last.before
       /\ last.outcome = IF last.predictor \in Registered(last.before)
                         THEN "PredictorAlreadyInGraph"
                         ELSE "InputNotInGraph"
       /\ last.predictor \notin Registered(last.before)
            => last.predictor \notin Registered(_nodes)

\* C2 witness: a call on a registry that holds nodes named a new predictor
\* and, after a registered input, an unregistered one, and was rejected.
C2_Witness ==
    /\ last.op = "add_node"
    /\ Len(last.before) >= 1
    /\ last.predictor \notin Registered(last.before)
    /\ Len(last.inputs) = 2
    /\ last.inputs[1] \in Registered(last.before)
    /\ last.inputs[2] \notin Registered(last.before)
    /\ last.outcome = "InputNotInGraph"

\* C3: add_node of a registered predictor fails with the already-in-graph
\* error whatever the other arguments, and the registry is as before: the
\* node keeps inputs, accepts_data and position, and stays the only node of
\* that predictor.
C3_DuplicateRejected ==
    (last.op = "add_node" /\ last.predictor \in Registered(last.before))
    => /\ last.outcome = "PredictorAlreadyInGraph"
       /\ _nodes = last.before
       /\ Cardinality(Positions(_nodes, last.predictor)) = 1

\* C3 witness: a registered predictor was added again with other inputs,
\* all registered, and another accepts_data than its node has; the call was
\* rejected as a duplicate.
C3_Witness ==
    /\ last.op = "add_node"
    /\ last.predictor \in Registered(last.before)
    /\ ~HasUnknownInput(last.before, last.inputs)
    /\ \A k \in Positions(last.before, last.predictor) :
          /\ last.before[k].inputs # last.inputs
          /\ last.before[k].accepts_data # (last.accepts_data = "True")
    /\ last.accepts_data # "auto"
    /\ last.outcome = "PredictorAlreadyInGraph"

\* A predict call has ended, by a return or by an exception.
PredictEnded == pc = "done" /\ result.status \in {"returned", "raised"}

\* No predictor invoked in this predict call has raised.
NoPredictorRaised == \A k \in 1..Len(calls) : calls[k].outcome \in Handles

\* The predictors invoked so far are the first nodes of the registry, in
\* insertion order.
CallsFollowInsertionOrder ==
    /\ Len(calls) <= Len(_nodes)
    /\ \A k \in 1..Len(calls) : calls[k].predictor = _nodes[k].predictor

\* C4 as stated: a predict call in which no predictor raises invokes every
\* registered predictor exactly once, in insertion order.
C4_AllInvokedUnlessPredictorRaises ==
    (PredictEnded /\ NoPredictorRaised)
    => /\ CallsFollowInsertionOrder
       /\ Len(calls) = Len(_nodes)

\* C4 amended: the predictors are always invoked in insertion order, at most
\* once each and only after all their inputs have been invoked and have
\* returned; a predict call that is given a selection (select is not None)
\* and in which no predictor raises invokes every registered predictor.
C4_AllInvokedInOrder ==
    /\ CallsFollowInsertionOrder
    /\ \A p \in Predictors : Cardinality({k \in 1..Len(calls) : calls[k].predictor = p}) <= 1
    /\ \A k \in 1..Len(calls) :
          \A j \in 1..Len(_nodes[k].inputs) :
              \E m \in 1..(k - 1) :
                  /\ calls[m].predictor = _nodes[k].inputs[j]
                  /\ calls[m].outcome \in Handles
    /\ (PredictEnded /\ NoPredictorRaised /\ args.select # NoneSelect)
       => /\ Len(calls) = Len(_nodes)
          /\ \A p \in Registered(_nodes) :
                Cardinality({k \in 1..Len(calls) : calls[k].predictor = p}) = 1

\* C4 witness: predict has returned on a chain A -> B -> C.
C4_Witness ==
    /\ PredictEnded
    /\ result.status = "returned"
    /\ Len(_nodes) = 3
    /\ _nodes[1].inputs = <<>>
    /\ _nodes[2].inputs = <<_nodes[1].predictor>>
    /\ _nodes[3].inputs = <<_nodes[2].predictor>>
    /\ Len(calls) = 3

\* C5: the selection a predictor is invoked with is the selection given to
\* predict with one outputs(X, identifier) scope per declared input of its
\* node, in declaration order, and nothing else; without inputs it is the
\* selection given to predict.
C5_SelectionScopedByOwnInputs ==
    \A k \in 1..Len(calls) :
        /\ Positions(_nodes, calls[k].predictor) # {}
        /\ \A n \in Positions(_nodes, calls[k].predictor) :
              /\ calls[k].select.base = args.select.base
              /\ calls[k].select.scopes =
                    [j \in 1..Len(_nodes[n].inputs) |->
                        <<args.X, Identifier(_nodes[n].inputs[j])>>]
              /\ _nodes[n].inputs = <<>> => calls[k].select = args.select

\* C5 witness: a node with an input was invoked with a scoped selection, and
\* after it a node without inputs, which received the selection given to
\* predict.
C5_Witness ==
    /\ Len(calls) = 3
    /\ _nodes[2].inputs = <<_nodes[1].predictor>>
    /\ Len(calls[2].select.scopes) = 1
    /\ _nodes[3].inputs = <<>>
    /\ calls[3].select = BaseSelect

\* C6: the dependencies a predictor is invoked with are the dependencies
\* given to predict followed by the value returned, in this predict call, by
\* the predictor of each declared input, in declaration order.
C6_DependenciesFromInputs ==
    \A k \in 1..Len(calls) :
        /\ Positions(_nodes, calls[k].predictor) # {}
        /\ \A n \in Positions(_nodes, calls[k].predictor) :
              /\ Len(calls[k].dependencies) =
                    Len(args.dependencies) + Len(_nodes[n].inputs)
              /\ \A j \in 1..Len(args.dependencies) :
                    calls[k].dependencies[j] = args.dependencies[j]
              /\ \A j \in 1..Len(_nodes[n].inputs) :
                    \E m \in 1..(k - 1) :
                        /\ calls[m].predictor = _nodes[n].inputs[j]
                        /\ calls[k].dependencies[Len(args.dependencies) + j]
                              = calls[m].outcome
              /\ _nodes[n].inputs = <<>> => calls[k].dependencies = args.dependencies

\* C6 witness: with dependencies given to predict, the third node declares
\* the second node and then the first as inputs, whose predictors returned
\* different values.
C6_Witness ==
    /\ Len(calls) = 3
    /\ args.dependencies # <<>>
    /\ _nodes[3].inputs = <<_nodes[2].predictor, _nodes[1].predictor>>
    /\ calls[1].outcome \in Handles
    /\ calls[2].outcome \in Handles
    /\ calls[1].outcome # calls[2].outcome

\* C7 as stated: on a registry that is not empty, a predict call in which no
\* predictor raises returns the value the predictor of the last node
\* returned in that call.
C7_ReturnsLastUnlessPredictorRaises ==
    (PredictEnded /\ NoPredictorRaised /\ Len(_nodes) >= 1)
    => /\ result.status = "returned"
       /\ Len(calls) = Len(_nodes)
       /\ calls[Len(calls)].predictor = _nodes[Len(_nodes)].predictor
       /\ result.value = calls[Len(calls)].outcome

\* C7 amended: the same for a predict call that is given a selection (select
\* is not None).
C7_ReturnsLast ==
    (PredictEnded /\ NoPredictorRaised /\ Len(_nodes) >= 1
        /\ args.select # NoneSelect)
    => /\ result.status = "returned"
       /\ Len(calls) = Len(_nodes)
       /\ calls[Len(calls)].predictor = _nodes[Len(_nodes)].predictor
       /\ result.value = calls[Len(calls)].outcome

\* C7 witness: predict has returned on a registry with two sinks fed by one
\* source, whose predictors returned different values.
C7_Witness ==
    /\ PredictEnded
    /\ result.status = "returned"
    /\ Len(_nodes) = 3
    /\ _nodes[2].inputs = <<_nodes[1].predictor>>
    /\ _nodes[3].inputs = <<_nodes[1].predictor>>
    /\ Len(calls) = 3
    /\ calls[2].outcome # calls[3].outcome

\* C8: when the predictor of the k-th node raises, the predictors of nodes
\* 1..k-1 have been invoked, once each and in order, and have returned, the
\* invocation that raised is the last one of the call, predict has ended
\* without a result, and its caller receives the error that was raised.
C8_PredictorErrorPropagates ==
    \A k \in 1..Len(calls) :
        calls[k].outcome \in Errors
        => /\ k = Len(calls)
           /\ k <= Len(_nodes)
           /\ \A j \in 1..k : calls[j].predictor = _nodes[j].predictor
           /\ \A j \in 1..(k - 1) : calls[j].outcome \in Handles
           /\ pc = "done"
           /\ result.status = "raised"
           /\ result.source = "predictor"
           /\ result.value = calls[k].outcome

\* C8 witness: on three nodes the predictor of the second has raised.
C8_Witness ==
    /\ Len(_nodes) = 3
    /\ Len(calls) = 2
    /\ calls[2].outcome \in Errors
    /\ result.status = "raised"

\* C9: a node whose accepts_data is true is invoked with the X given to
\* predict, a node whose accepts_data is false is invoked with no raw data.
C9_DataOnlyIfAccepted ==
    \A k \in 1..Len(calls) :
        \A n \in Positions(_nodes, calls[k].predictor) :
            /\ _nodes[n].accepts_data => calls[k].X = args.X
            /\ ~_nodes[n].accepts_data => calls[k].X = NoData

\* C10: after a successful add_node the predictor has one node, with the
\* inputs passed; its accepts_data is, for "auto", true exactly when inputs
\* is empty and, for an explicit boolean, that boolean.
C10_AcceptsDataResolved ==
    (last.op = "add_node" /\ last.outcome = "ok")
    => /\ Cardinality(Positions(_nodes, last.predictor)) = 1
       /\ \A k \in Positions(_nodes, last.predictor) :
            /\ _nodes[k].inputs = last.inputs
            /\ last.accepts_data = "auto"
                 => (_nodes[k].accepts_data <=> Len(last.inputs) = 0)
            /\ last.accepts_data = "True" => _nodes[k].accepts_data
            /\ last.accepts_data = "False" => ~_nodes[k].accepts_data

\* C10 witness: a successful call with "auto" and inputs, on a registry
\* holding a node with inputs that accepts data and a node without inputs
\* that accepts none (explicit booleans).
C10_Witness ==
    /\ last.op = "add_node"
    /\ last.outcome = "ok"
    /\ last.accepts_data = "auto"
    /\ last.inputs # <<>>
    /\ \E k \in 1..Len(last.before) :
          last.before[k].inputs # <<>> /\ last.before[k].accepts_data
    /\ \E k \in 1..Len(last.before) :
          last.before[k].inputs = <<>> /\ ~last.before[k].accepts_data

\* C11: every registered node without inputs has accepts_data true.
C11_NoInputsAcceptsData ==
    \A k \in 1..Len(_nodes) :
        _nodes[k].inputs = <<>> => _nodes[k].accepts_data

\* C12: membership goes by the identity of the predictor object: every
\* object has at most one node, and an add_node call is rejected as a
\* duplicate exactly when that very object has a node, is rejected for its
\* inputs exactly when one of them, as an object, has no node, and succeeds
\* otherwise, whatever compares equal to what.
C12_IdentityDecides ==
    /\ Cardinality(Registered(_nodes)) = Len(_nodes)
    /\ last.op = "add_node"
       => last.outcome =
             IF last.predictor \in Registered(last.before)
             THEN "PredictorAlreadyInGraph"
             ELSE IF HasUnknownInput(last.before, last.inputs)
             THEN "InputNotInGraph"
             ELSE "ok"

\* C12 witness: two objects that compare equal have a node each and are the
\* two inputs of a third node; adding one of them again was rejected.
C12_Witness ==
    /\ last.op = "add_node"
    /\ last.outcome = "PredictorAlreadyInGraph"
    /\ Len(_nodes) = 3
    /\ _nodes[1].predictor # _nodes[2].predictor
    /\ Content(_nodes[1].predictor) = Content(_nodes[2].predictor)
    /\ _nodes[3].inputs = <<_nodes[1].predictor, _nodes[2].predictor>>
    /\ last.predictor = _nodes[2].predictor

\* C13: every predictor is invoked with the shared parameters given to
\* predict, and with the same X as every other; only the selection and the
\* dependencies differ between nodes.
C13_SharedParamsPassedOn ==
    \A k \in 1..Len(calls) :
        /\ calls[k].shared = args.shared
        /\ calls[k].X = calls[1].X

\* C13 witness: three predictors were invoked, whose nodes differ in inputs
\* and accepts_data and which received different selections.
C13_Witness ==
    /\ Len(calls) = 3
    /\ _nodes[1].accepts_data
    /\ ~_nodes[3].accepts_data
    /\ _nodes[2].inputs # _nodes[3].inputs
    /\ calls[2].select # calls[3].select
    /\ calls[1].select # calls[2].select

\* C14: every step leaves the nodes registered before it where they were
\* and as they were; the registry grows, by one node at its end, exactly in
\* a successful add_node, and that node is the one of the predictor added.
C14_AppendOnly ==
    [][/\ Len(_nodes') >= Len(_nodes)
       /\ Len(_nodes') <= Len(_nodes) + 1
       /\ SubSeq(_nodes', 1, Len(_nodes)) = _nodes
       /\ Len(_nodes') = Len(_nodes) + 1
          <=> (pc = "idle" /\ last'.op = "add_node" /\ last'.outcome = "ok")
       /\ Len(_nodes') = Len(_nodes) + 1
          => /\ _nodes'[Len(_nodes')].predictor = last'.predictor
             /\ _nodes'[Len(_nodes')].inputs = last'.inputs]_vars

\* C14 witness: a successful add_node on a registry that held two nodes.
C14_Witness ==
    /\ last.op = "add_node"
    /\ last.outcome = "ok"
    /\ Len(last.before) = 2
    /\ Len(_nodes) = 3

\* C15: no step of predict, from its start to its caller going on with the
\* result or the error, changes the registry.
C15_PredictReadOnly ==
    [][(pc = "loop" \/ pc' = "loop" \/ (pc = "done" /\ result.status # "none"))
       => _nodes' = _nodes]_vars

\* C15 witness: predict was aborted by the second of three predictors and
\* the three nodes are there.
C15_Witness ==
    /\ PredictEnded
    /\ result.status = "raised"
    /\ Len(calls) = 2
    /\ Len(_nodes) = 3
    /\ _nodes[3].inputs # <<>>

\* C16: a predict call starts with an empty cache; whatever the cache holds
\* was returned in this call by the predictor it is stored under; so is
\* every dependency a predictor is invoked with beyond those given to
\* predict; a call that returns has invoked every predictor once.
C16_CachePerCall ==
    /\ (pc = "loop" /\ calls = <<>>) => _outputs = <<>>
    /\ pc \in {"loop", "done"}
       => \A p \in DOMAIN _outputs :
             \E k \in 1..Len(calls) :
                 calls[k].predictor = p /\ calls[k].outcome = _outputs[p]
    /\ \A k \in 1..Len(calls) :
          \A j \in (Len(args.dependencies) + 1)..Len(calls[k].dependencies) :
              \E m \in 1..(k - 1) : calls[m].outcome = calls[k].dependencies[j]
    /\ (PredictEnded /\ result.status = "returned")
       => \A p \in Registered(_nodes) :
             Cardinality({k \in 1..Len(calls) : calls[k].predictor = p}) = 1

\* C16 witness: in a predict call made right after one that was aborted,
\* the second predictor was invoked with the value the first returned in
\* this call.
C16_Witness ==
    /\ pc = "loop"
    /\ result.after = "raised"
    /\ Len(calls) = 2
    /\ _nodes[2].inputs = <<_nodes[1].predictor>>
    /\ calls[2].dependencies = Append(args.dependencies, calls[1].outcome)

\* C17 as stated: predict ends after exactly N invocations that all
\* returned, or at the first invocation that raises.
C17_EndsAfterAllOrAtFirstRaise ==
    PredictEnded
    => \/ NoPredictorRaised /\ Len(calls) = Len(_nodes)
       \/ Len(calls) >= 1 /\ calls[Len(calls)].outcome \in Errors

\* C17 amended: while predict runs it has invoked one predictor per
\* iteration, none twice, and its next step can always be taken, whatever
\* the predictors returned; it has ended after N invocations when a
\* selection is given and all of them returned, at the first invocation that
\* raised, or, with select None, at the first node with an input, which it
\* did not invoke.
C17_Terminates ==
    /\ pc = "loop"
       => /\ idx = Len(calls) + 1
          /\ idx <= Len(_nodes) + 1
          /\ NoPredictorRaised
          /\ ENABLED (PredictStep \/ PredictReturn)
    /\ \A p \in Predictors :
          Cardinality({k \in 1..Len(calls) : calls[k].predictor = p}) <= 1
    /\ PredictEnded
       => \/ NoPredictorRaised /\ Len(calls) = Len(_nodes)
          \/ /\ Len(calls) >= 1
             /\ calls[Len(calls)].outcome \in Errors
             /\ \A k \in 1..(Len(calls) - 1) : calls[k].outcome \in Handles
          \/ /\ args.select = NoneSelect
             /\ NoPredictorRaised
             /\ Len(calls) < Len(_nodes)
             /\ _nodes[Len(calls) + 1].inputs # <<>>
             /\ \A k \in 1..Len(calls) : _nodes[k].inputs = <<>>

\* C17 witness: predict has returned after three invocations.
C17_Witness ==
    /\ PredictEnded
    /\ result.status = "returned"
    /\ Len(_nodes) = 3
    /\ Len(calls) = 3

\* C18: when a node is about to be invoked the cache holds an entry for
\* each of its inputs, so no lookup fails with a missing key; during the
\* loop the cache holds the values returned by the predictors invoked so
\* far in this call, and nothing else.
C18_InputsCached ==
    /\ (pc = "loop" /\ idx <= Len(_nodes))
       => \A j \in 1..Len(_nodes[idx].inputs) :
             _nodes[idx].inputs[j] \in DOMAIN _outputs
    /\ pc = "loop"
       => /\ DOMAIN _outputs = {calls[k].predictor : k \in 1..Len(calls)}
          /\ \A k \in 1..Len(calls) :
                _outputs[calls[k].predictor] = calls[k].outcome
    /\ result.value # "KeyError"

\* C18 witness: the third node, with the two others as inputs, is about to
\* be invoked and the cache holds their two values.
C18_Witness ==
    /\ pc = "loop"
    /\ idx = 3
    /\ Len(_nodes) = 3
    /\ _nodes[3].inputs = <<_nodes[2].predictor, _nodes[1].predictor>>
    /\ Cardinality(DOMAIN _outputs) = 2

\* C19: predict on an empty registry invokes no predictor and ends with an
\* error, not with a value.
C19_EmptyRegistryFails ==
    (PredictEnded /\ Len(_nodes) = 0)
    => /\ calls = <<>>
       /\ result.status = "raised"
       /\ result.source = "predict"
       /\ result.value = "UnboundLocalError"

\* C19 witness: predict has ended on the empty registry.
C19_Witness ==
    /\ PredictEnded
    /\ Len(_nodes) = 0
    /\ result.status = "raised"

====
